---- MODULE Spec2Model ----
(***************************************************************************)
(* A model of aranet4-cli's library (src/src/lib.rs): the scan operation    *)
(* get_devices with its per-device steps get_services, get_device,         *)
(* get_name, get_data and get_info, and the pure parts of the payload      *)
(* decoding (Status::try_from, the byte layout of Data).                   *)
(*                                                                         *)
(* The Bluetooth adapter (btleplug) and the timer (tokio::time::timeout_at)*)
(* are the environment: every await of the source is one action whose      *)
(* outcome (success, transport error, absent value) the environment picks. *)
(***************************************************************************)
EXTENDS Integers, Sequences, FiniteSets, TLC

VARIABLES
    pc,              \* the await the scan is suspended at, or "done"
    max_devices,     \* argument: Option<usize>
    timeout,         \* argument: Duration (in clock ticks)
    now,             \* the clock (time::Instant::now())
    timeout_instant, \* local of get_devices, line 99
    scanning,        \* the adapter's discovery session is active
    startCalls,      \* calls of central.start_scan made so far
    stopCalls,       \* calls of central.stop_scan made so far
    devices,         \* local of get_devices: Vec<Device>
    result,          \* what get_devices returned (or that it panicked)
    cur,             \* the peripheral of the event being processed
    ret,             \* what the last completed await returned
    hung,            \* the pending device operation will never complete
    consumed,        \* events taken from the event stream so far
    pushedAt,        \* for each pushed device, the value of consumed then
    exitPath,        \* which return statement (or unwind) ended the scan
    loopExit,        \* why the while-let loop ended
    name,            \* get_device: the name read for the Device being built
    res,             \* get_data: the bytes the data characteristic returned
    data,            \* get_device: the Data decoded for the Device
    info,            \* get_info: the Info being filled
    pending,         \* get_info: characteristics the for loop has yet to visit
    op,              \* the await that completed last (the pc it was made at)
    services,        \* local of the loop body, line 104, if read in this iteration
    infoReads        \* get_info: the characteristics it has read from the device

vars == <<pc, max_devices, timeout, now, timeout_instant, scanning, startCalls,
          stopCalls, devices, result, cur, ret, hung, consumed, pushedAt,
          exitPath, loopExit, name, res, data, info, pending, op, services,
          infoReads>>

----------------------------------------------------------------------------
(* Bounds of the model. *)

MaxEvents == 3      \* events the stream delivers in one scan
MaxTime == 3        \* the clock runs from 0 to MaxTime, or on to the deadline
MaxTimeout == 1     \* timeouts 0..MaxTimeout
MaxCap == 2         \* max_devices ranges over None, Some(0)..Some(MaxCap)

----------------------------------------------------------------------------
(* Identifiers, lines 7-20.  A UUID is modelled by its distinguishing hex  *)
(* digits; CharOrder lists the characteristic UUIDs in ascending order,    *)
(* the order in which a BTreeSet<Characteristic> is iterated.              *)

ARANET4_SERVICE == "fce0"
ARANET4_CHARACTERISTIC == "f0cd3001"
BLUETOOTH_MODEL_NUMBER_CHARACTERISTIC == "2a24"
BLUETOOTH_SERIAL_NUMBER_CHARACTERISTIC == "2a25"
BLUETOOTH_FIRMWARE_REVISION_CHARACTERISTIC == "2a26"
BLUETOOTH_HARDWARE_REVISION_CHARACTERISTIC == "2a27"
BLUETOOTH_SOFTWARE_REVISION_CHARACTERISTIC == "2a28"
BLUETOOTH_MANUFACTURER_NAME_CHARACTERISTIC == "2a29"

OTHER_SERVICE == "180f"          \* a service that is not the sensor's
OTHER_CHARACTERISTIC == "2a19"   \* a characteristic get_info does not know

InfoCharacteristics ==
    { BLUETOOTH_MODEL_NUMBER_CHARACTERISTIC,
      BLUETOOTH_SERIAL_NUMBER_CHARACTERISTIC,
      BLUETOOTH_FIRMWARE_REVISION_CHARACTERISTIC,
      BLUETOOTH_HARDWARE_REVISION_CHARACTERISTIC,
      BLUETOOTH_SOFTWARE_REVISION_CHARACTERISTIC,
      BLUETOOTH_MANUFACTURER_NAME_CHARACTERISTIC }

CharOrder ==
    << OTHER_CHARACTERISTIC,
       BLUETOOTH_MODEL_NUMBER_CHARACTERISTIC,
       BLUETOOTH_SERIAL_NUMBER_CHARACTERISTIC,
       BLUETOOTH_FIRMWARE_REVISION_CHARACTERISTIC,
       BLUETOOTH_HARDWARE_REVISION_CHARACTERISTIC,
       BLUETOOTH_SOFTWARE_REVISION_CHARACTERISTIC,
       BLUETOOTH_MANUFACTURER_NAME_CHARACTERISTIC,
       ARANET4_CHARACTERISTIC >>

----------------------------------------------------------------------------
(* Option and Result values. *)

None == [some |-> FALSE, v |-> 0]
Some(x) == [some |-> TRUE, v |-> x]

----------------------------------------------------------------------------
(* Status::try_from, lines 37-48.  The discriminants are those of the     *)
(* enum, lines 31-35.                                                      *)

GREEN == 1
AMBER == 2
RED == 3

\* a conversion that falls back to a variant for an unknown byte
StatusTryFromLenient(value) ==
    IF value = GREEN THEN [ok |-> TRUE, status |-> "GREEN"]
    ELSE IF value = AMBER THEN [ok |-> TRUE, status |-> "AMBER"]
    ELSE IF value = RED THEN [ok |-> TRUE, status |-> "RED"]
    ELSE [ok |-> TRUE, status |-> "GREEN"]

StatusTryFrom(value) ==
    IF value = GREEN THEN [ok |-> TRUE, status |-> "GREEN"]
    ELSE IF value = AMBER THEN [ok |-> TRUE, status |-> "AMBER"]
    ELSE IF value = RED THEN [ok |-> TRUE, status |-> "RED"]
    ELSE [ok |-> FALSE, status |-> "Err"]

----------------------------------------------------------------------------
(* The payload decoding of get_data, lines 154-165.                        *)
(* Rust indexes from 0, TLA+ sequences from 1.                             *)

DATA_LEN == 13

Byte(bytes, i) == bytes[i + 1]

\* res[lo..hi]: panics unless hi <= res.len()
SliceInRange(bytes, lo, hi) == hi <= Len(bytes)

\* res[i]: panics unless i < res.len()
IndexInRange(bytes, i) == i < Len(bytes)

U16FromBeBytes(bytes, i) == 256 * Byte(bytes, i) + Byte(bytes, i + 1)

\* u16::from_le_bytes(res[i..i+2])
U16FromLeBytes(bytes, i) == Byte(bytes, i) + 256 * Byte(bytes, i + 1)

(* An f32 is the pair <<m, e>> standing for m / 2^e, with m = 0 or         *)
(* 2^23 <= m < 2^24 (24 significant bits).  `n as f32` is exact for a u16; *)
(* the division by 20.0 or 10.0 is IEEE-754 division: the quotient         *)
(* rounded to the nearest f32, ties to even.                               *)
RECURSIVE F32Exponent(_, _, _)
F32Exponent(n, d, e) ==
    IF n * (2 ^ e) >= d * (2 ^ 23) THEN e ELSE F32Exponent(n, d, e + 1)

RoundTiesEven(num, d) ==
    LET q == num \div d
        r == num % d
    IN  IF 2 * r > d \/ (2 * r = d /\ q % 2 = 1) THEN q + 1 ELSE q

F32Div(n, d) ==
    IF n = 0 THEN [m |-> 0, e |-> 0]
    ELSE LET e == F32Exponent(n, d, 0)
             m == RoundTiesEven(n * (2 ^ e), d)
         IN  IF m = 2 ^ 24 THEN [m |-> 2 ^ 23, e |-> e - 1]
             ELSE [m |-> m, e |-> e]

NoData ==
    [co2 |-> 0, temperature |-> [m |-> 0, e |-> 0],
     pressure |-> [m |-> 0, e |-> 0], humidity |-> 0, battery |-> 0,
     status |-> "none", interval |-> 0, ago |-> 0]

Decoded(d) == [kind |-> "ok", at |-> "", data |-> d]
DecodePanic(where) == [kind |-> "panic", at |-> where, data |-> NoData]

(* The struct expression of lines 154-165: the field expressions are       *)
(* evaluated in the order written, and the first slice or index out of     *)
(* range, or the unwrap of a failed Status conversion, panics.             *)
DecodeData(bytes) ==
    IF ~SliceInRange(bytes, 0, 2) THEN DecodePanic("res[0..2]")
    ELSE IF ~SliceInRange(bytes, 2, 4) THEN DecodePanic("res[2..4]")
    ELSE IF ~SliceInRange(bytes, 4, 6) THEN DecodePanic("res[4..6]")
    ELSE IF ~IndexInRange(bytes, 6) THEN DecodePanic("res[6]")
    ELSE IF ~IndexInRange(bytes, 7) THEN DecodePanic("res[7]")
    ELSE IF ~IndexInRange(bytes, 8) THEN DecodePanic("res[8]")
    ELSE IF ~StatusTryFrom(Byte(bytes, 8)).ok THEN DecodePanic("status.unwrap()")
    ELSE IF ~SliceInRange(bytes, 9, 11) THEN DecodePanic("res[9..11]")
    ELSE IF ~SliceInRange(bytes, 11, 13) THEN DecodePanic("res[11..13]")
    ELSE Decoded(
        [co2 |-> U16FromLeBytes(bytes, 0),
         temperature |-> F32Div(U16FromLeBytes(bytes, 2), 20),
         pressure |-> F32Div(U16FromLeBytes(bytes, 4), 10),
         humidity |-> Byte(bytes, 6),
         battery |-> Byte(bytes, 7),
         status |-> StatusTryFrom(Byte(bytes, 8)).status,
         interval |-> U16FromLeBytes(bytes, 9),
         ago |-> U16FromLeBytes(bytes, 11)])

----------------------------------------------------------------------------
(* String::from_utf8_lossy, as used in lines 176-196, on the bytes the     *)
(* model's devices return: ASCII, two-byte sequences, and bytes that are   *)
(* not valid UTF-8, each of which becomes U+FFFD.  A String is the         *)
(* sequence of its code points.                                            *)

RECURSIVE FromUtf8Lossy(_)
FromUtf8Lossy(bytes) ==
    IF bytes = <<>> THEN <<>>
    ELSE LET b == Head(bytes)
         IN  IF b < 128 THEN <<b>> \o FromUtf8Lossy(Tail(bytes))
             ELSE IF /\ b >= 194 /\ b <= 223 /\ Len(bytes) >= 2
                     /\ bytes[2] >= 128 /\ bytes[2] <= 191
             THEN <<(b - 192) * 64 + (bytes[2] - 128)>>
                      \o FromUtf8Lossy(SubSeq(bytes, 3, Len(bytes)))
             ELSE <<65533>> \o FromUtf8Lossy(Tail(bytes))

NoneStr == [some |-> FALSE, v |-> <<>>]

\* Info { ..Default::default() }, lines 169-171
DefaultInfo ==
    [model_number |-> NoneStr, serial_number |-> NoneStr,
     firmware_revision |-> NoneStr, hardware_revision |-> NoneStr,
     software_revision |-> NoneStr, manufacturer_name |-> NoneStr]

\* the match with the serial number's arm storing into model_number
SetInfoFieldSlipped(inf, uuid, bytes) ==
    LET s == Some(FromUtf8Lossy(bytes))
    IN  CASE uuid = BLUETOOTH_MODEL_NUMBER_CHARACTERISTIC ->
                 [inf EXCEPT !.model_number = s]
          [] uuid = BLUETOOTH_SERIAL_NUMBER_CHARACTERISTIC ->
                 [inf EXCEPT !.model_number = s]
          [] uuid = BLUETOOTH_FIRMWARE_REVISION_CHARACTERISTIC ->
                 [inf EXCEPT !.firmware_revision = s]
          [] uuid = BLUETOOTH_HARDWARE_REVISION_CHARACTERISTIC ->
                 [inf EXCEPT !.hardware_revision = s]
          [] uuid = BLUETOOTH_SOFTWARE_REVISION_CHARACTERISTIC ->
                 [inf EXCEPT !.software_revision = s]
          [] uuid = BLUETOOTH_MANUFACTURER_NAME_CHARACTERISTIC ->
                 [inf EXCEPT !.manufacturer_name = s]
          [] OTHER -> inf

\* the match of lines 173-199, for a recognized identifier
SetInfoField(inf, uuid, bytes) ==
    LET s == Some(FromUtf8Lossy(bytes))
    IN  CASE uuid = BLUETOOTH_MODEL_NUMBER_CHARACTERISTIC ->
                 [inf EXCEPT !.model_number = s]
          [] uuid = BLUETOOTH_SERIAL_NUMBER_CHARACTERISTIC ->
                 [inf EXCEPT !.serial_number = s]
          [] uuid = BLUETOOTH_FIRMWARE_REVISION_CHARACTERISTIC ->
                 [inf EXCEPT !.firmware_revision = s]
          [] uuid = BLUETOOTH_HARDWARE_REVISION_CHARACTERISTIC ->
                 [inf EXCEPT !.hardware_revision = s]
          [] uuid = BLUETOOTH_SOFTWARE_REVISION_CHARACTERISTIC ->
                 [inf EXCEPT !.software_revision = s]
          [] uuid = BLUETOOTH_MANUFACTURER_NAME_CHARACTERISTIC ->
                 [inf EXCEPT !.manufacturer_name = s]
          [] OTHER -> inf

\* the characteristics the for loop of line 172 visits, in its order
CharacteristicsOf(dev) == SelectSeq(CharOrder, LAMBDA c : c \in dev.chars)

\* the arm `_ => {}` of line 198: no await, the loop goes on
RECURSIVE SkipIgnored(_)
SkipIgnored(chars) ==
    IF chars = <<>> THEN <<>>
    ELSE IF Head(chars) \in InfoCharacteristics THEN chars
    ELSE SkipIgnored(Tail(chars))

----------------------------------------------------------------------------
(* The environment: the peripherals in range and what each answers.        *)

\* the payload of the documented example: co2 722, 30.0 C, 84.8 hPa, 40 %,
\* battery 100, GREEN, interval 60 s, ago 5 s
SamplePayload == <<210, 2, 88, 2, 80, 3, 40, 100, 1, 60, 0, 5, 0>>

Sensor1 ==
    [id |-> 1, address |-> 1, hasProps |-> TRUE, hasName |-> TRUE,
     local_name |-> "Aranet4 1", services |-> {ARANET4_SERVICE},
     chars |-> {ARANET4_CHARACTERISTIC, OTHER_CHARACTERISTIC},
     payload |-> SamplePayload, text |-> <<65>>]

Sensor2 ==
    [Sensor1 EXCEPT !.id = 2, !.address = 2, !.local_name = "Aranet4 2",
       !.services = {OTHER_SERVICE, ARANET4_SERVICE},
       !.chars = {ARANET4_CHARACTERISTIC, BLUETOOTH_MODEL_NUMBER_CHARACTERISTIC,
                  BLUETOOTH_MANUFACTURER_NAME_CHARACTERISTIC},
       !.payload = <<1, 1, 255, 255, 0, 0, 0, 0, 3, 0, 1, 255, 0>>,
       !.text = <<83, 255, 195, 169>>]

Foreign == [Sensor1 EXCEPT !.id = 3, !.address = 3, !.services = {OTHER_SERVICE}]
Silent == [Sensor1 EXCEPT !.id = 4, !.address = 4, !.services = {}]
NoProps == [Sensor1 EXCEPT !.id = 5, !.address = 5, !.hasProps = FALSE]
NoName == [Sensor1 EXCEPT !.id = 6, !.address = 6, !.hasName = FALSE]
NoDataChar ==
    [Sensor1 EXCEPT !.id = 7, !.address = 7,
       !.chars = {BLUETOOTH_MODEL_NUMBER_CHARACTERISTIC}]
Truncated12 ==
    [Sensor1 EXCEPT !.id = 8, !.address = 8, !.payload = SubSeq(SamplePayload, 1, 12)]
Truncated0 == [Sensor1 EXCEPT !.id = 9, !.address = 9, !.payload = <<>>]
Status0 ==
    [Sensor1 EXCEPT !.id = 10, !.address = 10,
       !.payload = [SamplePayload EXCEPT ![9] = 0]]
Status4 ==
    [Sensor1 EXCEPT !.id = 11, !.address = 11,
       !.payload = [SamplePayload EXCEPT ![9] = 4]]

Peripherals ==
    { Sensor1, Sensor2, Foreign, Silent, NoProps, NoName, NoDataChar,
      Truncated12, Truncated0, Status0, Status4 }

NoPeripheral == [Sensor1 EXCEPT !.id = 0, !.address = 0]

\* device.read(characteristic) of an info characteristic: the device's text,
\* led by a byte that tells the characteristics apart
InfoBytes(dev, uuid) ==
    <<47 + CHOOSE i \in 1..Len(CharOrder) : CharOrder[i] = uuid>> \o dev.text

\* the events of the stream: a discovery, or any other CentralEvent
Events ==
    [kind : {"DeviceDiscovered"}, dev : Peripherals]
        \cup [kind : {"DeviceUpdated"}, dev : {Sensor1}]

----------------------------------------------------------------------------
(* What get_devices returns. *)

NoResult == [kind |-> "none", what |-> "", devices |-> <<>>]
OkResult(devs) == [kind |-> "ok", what |-> "", devices |-> devs]
ErrResult(what) == [kind |-> "err", what |-> what, devices |-> <<>>]
PanicResult(what) == [kind |-> "panic", what |-> what, devices |-> <<>>]

\* the awaits on a peripheral, lines 103-110 and 122-131
DeviceOps ==
    { "peripheral", "get_services", "connect", "discover_services",
      "get_name", "read_data", "read_info" }

----------------------------------------------------------------------------
(* The scan operation get_devices, lines 78-120.                           *)

argVars == <<max_devices, timeout>>
adapterVars == <<scanning, startCalls, stopCalls>>
buildVars == <<name, res, data, info, pending, infoReads>>
loopVars == <<devices, cur, consumed, pushedAt, loopExit, services>>

\* `services` before line 104 has run in the iteration
NotRead == [read |-> FALSE, set |-> {}]

Init ==
    /\ pc = "manager_new"
    /\ max_devices \in {None} \cup {Some(n) : n \in 0..MaxCap}
    /\ timeout \in 0..MaxTimeout
    /\ now = 0
    /\ timeout_instant = 0
    /\ scanning = FALSE
    /\ startCalls = 0
    /\ stopCalls = 0
    /\ devices = <<>>
    /\ result = NoResult
    /\ cur = NoPeripheral
    /\ ret = "none"
    /\ hung = FALSE
    /\ consumed = 0
    /\ pushedAt = <<>>
    /\ exitPath = "none"
    /\ loopExit = "none"
    /\ name = ""
    /\ res = <<>>
    /\ data = NoData
    /\ info = DefaultInfo
    /\ pending = <<>>
    /\ op = "none"
    /\ services = NotRead
    /\ infoReads = {}

\* a return statement, a `?` that propagates an error, or a panic
Return(r, path) ==
    /\ pc' = "done"
    /\ op' = pc
    /\ result' = r
    /\ exitPath' = path

GoTo(next) ==
    /\ pc' = next
    /\ op' = pc
    /\ UNCHANGED <<result, exitPath>>

\* a skip-and-continue policy: the failing device is dropped, the scan goes on
SkipDevice(what) == GoTo("wait_event")

\* the `?` of lines 85-130 and 151-195: the error is returned at once
Propagate(what) == Return(ErrResult(what), "error")

BelowCapInclusive(max, devs) == IF max.some THEN Len(devs) <= max.v ELSE TRUE

\* max_devices.map(|m| devices.len() < m).unwrap_or(true), lines 95 and 112
BelowCap(max, devs) == IF max.some THEN Len(devs) < max.v ELSE TRUE

\* line 82: Manager::new().await.unwrap()
ManagerNew ==
    /\ pc = "manager_new"
    /\ \E outcome \in {"ok", "err"} :
        /\ ret' = outcome
        /\ IF outcome = "ok" THEN GoTo("adapters")
           ELSE Return(PanicResult("Manager::new"), "panic")
    /\ UNCHANGED <<argVars, now, timeout_instant, adapterVars, loopVars, hung,
                   buildVars>>

\* lines 85-86: manager.adapters().await?, then the first adapter, unwrapped
Adapters ==
    /\ pc = "adapters"
    /\ \E outcome \in {"adapter", "empty", "err"} :
        /\ ret' = outcome
        /\ CASE outcome = "adapter" -> GoTo("start_scan")
             [] outcome = "empty" -> Return(PanicResult("adapters.next"), "panic")
             [] outcome = "err" -> Propagate("adapters")
    /\ UNCHANGED <<argVars, now, timeout_instant, adapterVars, loopVars, hung,
                   buildVars>>

\* lines 88-91: central.start_scan(scan_filter).await?
StartScan ==
    /\ pc = "start_scan"
    /\ startCalls' = startCalls + 1
    /\ \E outcome \in {"ok", "err"} :
        /\ ret' = outcome
        /\ IF outcome = "ok"
           THEN scanning' = TRUE /\ GoTo("events")
           ELSE scanning' = scanning /\ Propagate("start_scan")
    /\ UNCHANGED <<argVars, now, timeout_instant, stopCalls, loopVars, hung,
                   buildVars>>

\* lines 92-99: central.events().await?, the empty Vec, the first cap check
\* and the deadline
EventsStream ==
    /\ pc = "events"
    /\ \E outcome \in {"ok", "err"} :
        /\ ret' = outcome
        /\ IF outcome = "err"
           THEN /\ Propagate("events")
                /\ UNCHANGED <<devices, timeout_instant>>
           ELSE /\ devices' = <<>>
                /\ IF ~BelowCap(max_devices, <<>>)
                   THEN /\ Return(OkResult(<<>>), "early_cap")
                        /\ UNCHANGED timeout_instant
                   ELSE /\ timeout_instant' = now + timeout
                        /\ GoTo("wait_event")
    /\ UNCHANGED <<argVars, now, adapterVars, cur, consumed, pushedAt,
                   loopExit, services, hung, buildVars>>

\* what the scan does with the Err(Elapsed) of timeout_at: the while-let
\* pattern of line 100 does not match and the loop ends
ElapsedPropagated == [pc |-> "done", result |-> ErrResult("Elapsed"), exitPath |-> "error"]

OnElapsed == [pc |-> "stop_scan", result |-> NoResult, exitPath |-> "none"]

\* a deadline that starts afresh with every event
DeadlineResetPerEvent(instant) == now + timeout

\* the deadline of the next timeout_at, line 100: timeout_instant, the local
\* set once at line 99
DeadlineAfterEvent(instant) == instant

\* events taken while the operations on a device are still in flight
EventWaitAnywhere ==
    { "wait_event", "peripheral", "get_services", "connect",
      "discover_services", "get_name", "read_data", "read_info" }

\* where events.next() is awaited: line 100 only, between two runs of the
\* loop body
EventWaitPoints == {"wait_event"}

\* line 100: timeout_at polls events.next() first: an event that is ready is
\* taken.  Line 102: only DeviceDiscovered is looked at.
TakeEvent(event) ==
    /\ ret' = "event"
    /\ services' = NotRead
    /\ timeout_instant' = DeadlineAfterEvent(timeout_instant)
    /\ IF event.kind = "DeviceDiscovered"
       THEN cur' = event.dev /\ GoTo("peripheral")
       ELSE cur' = cur /\ GoTo("wait_event")
    /\ UNCHANGED <<argVars, now, adapterVars, devices, pushedAt, loopExit,
                   hung, buildVars>>

NextEvent ==
    /\ pc \in EventWaitPoints
    /\ consumed < MaxEvents
    /\ \E event \in Events :
        /\ consumed' = consumed + 1
        /\ TakeEvent(event)

\* the events the loop body drops: not a discovery, or a device whose
\* services do not contain the sensor's
DiscardedEvents ==
    { e \in Events :
        e.kind # "DeviceDiscovered" \/ ARANET4_SERVICE \notin e.dev.services }

\* line 100, for a stream that does not end: once MaxEvents events are
\* counted, events the loop drops keep arriving, any number of them, as long
\* as the deadline has not passed
ExtraEvent ==
    /\ pc \in EventWaitPoints
    /\ consumed = MaxEvents
    /\ now < timeout_instant
    /\ \E event \in DiscardedEvents :
        /\ consumed' = consumed
        /\ TakeEvent(event)

\* line 100: the stream ends, events.next() is Ok(None)
StreamEnd ==
    /\ pc = "wait_event"
    /\ ret' = "stream_end"
    /\ loopExit' = "stream_end"
    /\ GoTo("stop_scan")
    /\ UNCHANGED <<argVars, now, timeout_instant, adapterVars, devices, cur,
                   consumed, pushedAt, services, hung, buildVars>>

\* line 100: the deadline passes with events.next() pending: Err(Elapsed)
Timeout ==
    /\ pc = "wait_event"
    /\ now >= timeout_instant
    /\ ret' = "elapsed"
    /\ loopExit' = "timeout"
    /\ pc' = OnElapsed.pc
    /\ op' = pc
    /\ result' = OnElapsed.result
    /\ exitPath' = OnElapsed.exitPath
    /\ UNCHANGED <<argVars, now, timeout_instant, adapterVars, devices, cur,
                   consumed, pushedAt, services, hung, buildVars>>

\* line 103: central.peripheral(&id).await.unwrap()
ResolvePeripheral ==
    /\ pc = "peripheral"
    /\ ~hung
    /\ \E outcome \in {"ok", "err"} :
        /\ ret' = outcome
        /\ IF outcome = "ok" THEN GoTo("get_services")
           ELSE Return(PanicResult("peripheral"), "panic")
    /\ UNCHANGED <<argVars, now, timeout_instant, adapterVars, loopVars, hung,
                   buildVars>>

ContainsAlways(svcs) == TRUE

\* line 107: services.contains(&ARANET4_SERVICE)
ContainsSensorService(svcs) == ARANET4_SERVICE \in svcs

\* device.properties().await: a transport error, or the properties if any
PropertiesOutcomes(dev) ==
    {"err"} \cup (IF dev.hasProps THEN {"props_some"} ELSE {"props_none"})

\* lines 104-109 with get_services, lines 139-142
GetServices ==
    /\ pc = "get_services"
    /\ ~hung
    /\ \E outcome \in PropertiesOutcomes(cur) :
        /\ ret' = outcome
        /\ CASE outcome = "err" -> Propagate("properties")
             [] outcome = "props_none" ->
                    Return(PanicResult("properties.unwrap"), "panic")
             [] outcome = "props_some" ->
                    IF ~ContainsSensorService(cur.services)
                    THEN GoTo("wait_event")
                    ELSE GoTo("connect")
        /\ services' = IF outcome = "props_some"
                       THEN [read |-> TRUE, set |-> cur.services]
                       ELSE services
    /\ UNCHANGED <<argVars, now, timeout_instant, adapterVars, devices, cur,
                   consumed, pushedAt, loopExit, hung, buildVars>>

\* line 123: aranet_device.connect().await?
Connect ==
    /\ pc = "connect"
    /\ ~hung
    /\ \E outcome \in {"ok", "err"} :
        /\ ret' = outcome
        /\ IF outcome = "ok" THEN GoTo("discover_services")
           ELSE Propagate("connect")
    /\ UNCHANGED <<argVars, now, timeout_instant, adapterVars, loopVars, hung,
                   buildVars>>

\* line 124: aranet_device.discover_services().await?
DiscoverServices ==
    /\ pc = "discover_services"
    /\ ~hung
    /\ \E outcome \in {"ok", "err"} :
        /\ ret' = outcome
        /\ IF outcome = "ok" THEN GoTo("get_name")
           ELSE Propagate("discover_services")
    /\ UNCHANGED <<argVars, now, timeout_instant, adapterVars, loopVars, hung,
                   buildVars>>

\* line 127 with get_name, lines 134-137; then line 128 and the start of
\* get_data, lines 145-149: the data characteristic is looked up, unwrapped
GetName ==
    /\ pc = "get_name"
    /\ ~hung
    /\ \E outcome \in PropertiesOutcomes(cur) :
        /\ ret' = outcome
        /\ CASE outcome = "err" ->
                    Propagate("properties") /\ name' = name
             [] outcome = "props_none" ->
                    Return(PanicResult("properties.unwrap"), "panic") /\ name' = name
             [] outcome = "props_some" ->
                    IF ~cur.hasName
                    THEN Return(PanicResult("local_name.unwrap"), "panic")
                         /\ name' = name
                    ELSE /\ name' = cur.local_name
                         /\ IF ARANET4_CHARACTERISTIC \notin cur.chars
                            THEN Return(PanicResult("data_char.unwrap"), "panic")
                            ELSE GoTo("read_data")
    /\ UNCHANGED <<argVars, now, timeout_instant, adapterVars, loopVars, hung,
                   res, data, info, pending, infoReads>>

\* lines 110-114: the Device is pushed and the cap is checked
PushDevice(nm, dt, inf) ==
    LET devs == Append(devices,
                       [name |-> nm, address |-> cur.address, data |-> dt,
                        info |-> inf])
    IN  /\ devices' = devs
        /\ pushedAt' = Append(pushedAt, consumed)
        /\ IF ~BelowCap(max_devices, devs)
           THEN Return(OkResult(devs), "cap")
           ELSE GoTo("wait_event")

\* lines 175-195: get_info issues device.read for the characteristic its loop
\* stops at, the first of `todo`
ReadIssued(reads, todo) ==
    IF todo = <<>> THEN reads ELSE reads \cup {Head(todo)}

\* lines 169-175, the start of get_info: the default Info, and the loop up to
\* its first read or, with nothing to read, its end
BeginInfo(dt) ==
    LET todo == SkipIgnored(CharacteristicsOf(cur))
    IN  /\ info' = DefaultInfo
        /\ pending' = todo
        /\ infoReads' = ReadIssued({}, todo)
        /\ IF todo = <<>>
           THEN PushDevice(name, dt, DefaultInfo)
           ELSE GoTo("read_info") /\ UNCHANGED <<devices, pushedAt>>

\* lines 151-165: device.read(data_char).await? and the decoding; then the
\* start of get_info, lines 169-173, up to its first read
ReadData ==
    /\ pc = "read_data"
    /\ ~hung
    /\ \E outcome \in {"data_bytes", "err"} :
        /\ ret' = outcome
        /\ IF outcome = "err"
           THEN /\ Propagate("read")
                /\ UNCHANGED <<res, data, info, pending, infoReads, devices,
                               pushedAt>>
           ELSE LET dec == DecodeData(cur.payload)
                IN  /\ res' = cur.payload
                    /\ IF dec.kind = "panic"
                       THEN /\ Return(PanicResult(dec.at), "panic")
                            /\ UNCHANGED <<data, info, pending, infoReads,
                                           devices, pushedAt>>
                       ELSE /\ data' = dec.data
                            /\ BeginInfo(dec.data)
    /\ UNCHANGED <<argVars, now, timeout_instant, adapterVars, cur, consumed,
                   loopExit, services, hung, name>>

\* lines 172-202: one device.read(&characteristic).await? of get_info, and
\* the loop up to its next read or its end
ReadInfo ==
    /\ pc = "read_info"
    /\ ~hung
    /\ \E outcome \in {"info_bytes", "err"} :
        /\ ret' = outcome
        /\ IF outcome = "err"
           THEN /\ Propagate("read")
                /\ UNCHANGED <<info, pending, infoReads, devices, pushedAt>>
           ELSE LET uuid == Head(pending)
                    inf == SetInfoField(info, uuid, InfoBytes(cur, uuid))
                    todo == SkipIgnored(Tail(pending))
                IN  /\ info' = inf
                    /\ pending' = todo
                    /\ infoReads' = ReadIssued(infoReads, todo)
                    /\ IF todo = <<>>
                       THEN PushDevice(name, data, inf)
                       ELSE GoTo("read_info")
                            /\ UNCHANGED <<devices, pushedAt>>
    /\ UNCHANGED <<argVars, now, timeout_instant, adapterVars, cur, consumed,
                   loopExit, services, hung, name, res, data>>

\* lines 117-119: central.stop_scan().await?, then Ok(devices)
StopScan ==
    /\ pc = "stop_scan"
    /\ stopCalls' = stopCalls + 1
    /\ \E outcome \in {"ok", "err"} :
        /\ ret' = outcome
        /\ IF outcome = "ok"
           THEN scanning' = FALSE /\ Return(OkResult(devices), "loop_end")
           ELSE scanning' = scanning /\ Propagate("stop_scan")
    /\ UNCHANGED <<argVars, now, timeout_instant, startCalls, loopVars, hung,
                   buildVars>>

\* time passes while the scan is suspended
Tick ==
    /\ pc # "done"
    /\ now < MaxTime \/ now < timeout_instant
    /\ now' = now + 1
    /\ UNCHANGED <<pc, argVars, timeout_instant, adapterVars, loopVars, result,
                   ret, hung, exitPath, buildVars, op>>

\* a peripheral stops answering: the operation awaited in lines 103-110 and
\* 123-130 never completes (none of them is given a timeout)
Hang ==
    /\ pc \in DeviceOps
    /\ ~hung
    /\ hung' = TRUE
    /\ UNCHANGED <<pc, argVars, now, timeout_instant, adapterVars, loopVars,
                   result, ret, exitPath, buildVars, op>>

\* the steps of the task that runs get_devices
ScanStep ==
    \/ ManagerNew
    \/ Adapters
    \/ StartScan
    \/ EventsStream
    \/ NextEvent
    \/ StreamEnd
    \/ Timeout
    \/ ResolvePeripheral
    \/ GetServices
    \/ Connect
    \/ DiscoverServices
    \/ GetName
    \/ ReadData
    \/ ReadInfo
    \/ StopScan

Next == ScanStep \/ Tick \/ Hang

Spec == Init /\ [][Next]_vars

\* the executor runs the task whenever the operation it awaits has completed,
\* and the clock advances
FairSpec == Spec /\ WF_vars(ScanStep) /\ WF_vars(Tick)

\* the scan on an event stream without end, under the same scheduling
StreamNext == Next \/ ExtraEvent

StreamSpec ==
    Init /\ [][StreamNext]_vars /\ WF_vars(ScanStep \/ ExtraEvent) /\ WF_vars(Tick)

----------------------------------------------------------------------------
(* The payload decoding on its own: get_data's struct expression applied   *)
(* to a buffer, for a range of buffers wider than the devices above give.  *)

SampleBytes == {0, 1, 2, 3, 4, 20, 127, 128, 255}

ZeroPayload == [i \in 1..DATA_LEN |-> IF i = 9 THEN 2 ELSE 0]

\* every buffer that differs from a base buffer in at most two places, every
\* low byte of the temperature and of the pressure, and every proper prefix
DecodeInputs ==
    { [[b EXCEPT ![i] = v] EXCEPT ![j] = w] :
        b \in {SamplePayload, ZeroPayload}, i \in 1..DATA_LEN, j \in 1..DATA_LEN,
        v \in SampleBytes, w \in SampleBytes }
    \cup { [SamplePayload EXCEPT ![i] = lo, ![i + 1] = hi] :
              i \in {3, 5}, lo \in 0..255, hi \in (0..15) \cup SampleBytes }
    \cup { SubSeq(SamplePayload, 1, n) : n \in 0..(DATA_LEN - 1) }

DecodeInit ==
    /\ pc = "get_data"
    /\ res \in DecodeInputs
    /\ max_devices = None
    /\ timeout = 0
    /\ now = 0
    /\ timeout_instant = 0
    /\ scanning = FALSE
    /\ startCalls = 0
    /\ stopCalls = 0
    /\ devices = <<>>
    /\ result = NoResult
    /\ cur = NoPeripheral
    /\ ret = "data_bytes"
    /\ hung = FALSE
    /\ consumed = 0
    /\ pushedAt = <<>>
    /\ exitPath = "none"
    /\ loopExit = "none"
    /\ name = ""
    /\ data = NoData
    /\ info = DefaultInfo
    /\ pending = <<>>
    /\ op = "none"
    /\ services = NotRead
    /\ infoReads = {}

\* lines 154-165 applied to res
Decode ==
    /\ pc = "get_data"
    /\ LET dec == DecodeData(res)
       IN  IF dec.kind = "panic"
           THEN Return(PanicResult(dec.at), "panic") /\ data' = data
           ELSE GoTo("decoded") /\ data' = dec.data
    /\ UNCHANGED <<argVars, now, timeout_instant, adapterVars, loopVars, ret,
                   hung, name, res, info, pending, infoReads>>

DecodeNext == Decode

DecodeSpec == DecodeInit /\ [][DecodeNext]_vars

----------------------------------------------------------------------------
(* Status::try_from on its own, for every u8.                              *)

StatusInit ==
    /\ pc = "try_from"
    /\ res \in { <<b>> : b \in 0..255 }
    /\ max_devices = None
    /\ timeout = 0
    /\ now = 0
    /\ timeout_instant = 0
    /\ scanning = FALSE
    /\ startCalls = 0
    /\ stopCalls = 0
    /\ devices = <<>>
    /\ result = NoResult
    /\ cur = NoPeripheral
    /\ ret = "none"
    /\ hung = FALSE
    /\ consumed = 0
    /\ pushedAt = <<>>
    /\ exitPath = "none"
    /\ loopExit = "none"
    /\ name = ""
    /\ data = NoData
    /\ info = DefaultInfo
    /\ pending = <<>>
    /\ op = "none"
    /\ services = NotRead
    /\ infoReads = {}

\* lines 40-47 applied to the byte of res: ret is the variant, or "Err"
TryFrom ==
    /\ pc = "try_from"
    /\ ret' = StatusTryFrom(res[1]).status
    /\ GoTo("converted")
    /\ UNCHANGED <<argVars, now, timeout_instant, adapterVars, loopVars, hung,
                   buildVars>>

StatusNext == TryFrom

StatusSpec == StatusInit /\ [][StatusNext]_vars

----------------------------------------------------------------------------
(* get_info on its own, for every set of characteristics a connected       *)
(* device may expose.                                                      *)

AllCharacteristics == { CharOrder[i] : i \in 1..Len(CharOrder) }

InfoTexts == { <<65>>, <<83, 255, 195, 169>> }

InfoInit ==
    /\ pc = "get_info"
    /\ \E cs \in SUBSET AllCharacteristics, t \in InfoTexts :
           cur = [Sensor1 EXCEPT !.chars = cs, !.text = t]
    /\ max_devices = None
    /\ timeout = 0
    /\ now = 0
    /\ timeout_instant = 0
    /\ scanning = TRUE
    /\ startCalls = 1
    /\ stopCalls = 0
    /\ devices = <<>>
    /\ result = NoResult
    /\ ret = "data_bytes"
    /\ hung = FALSE
    /\ consumed = 1
    /\ pushedAt = <<>>
    /\ exitPath = "none"
    /\ loopExit = "none"
    /\ name = Sensor1.local_name
    /\ res = SamplePayload
    /\ data = DecodeData(SamplePayload).data
    /\ info = DefaultInfo
    /\ pending = <<>>
    /\ op = "read_data"
    /\ services = [read |-> TRUE, set |-> Sensor1.services]
    /\ infoReads = {}

\* line 130: get_info(aranet_device) is called
GetInfo ==
    /\ pc = "get_info"
    /\ BeginInfo(data)
    /\ UNCHANGED <<argVars, now, timeout_instant, adapterVars, cur, consumed,
                   loopExit, services, hung, name, res, data, ret>>

InfoNext == GetInfo \/ ReadInfo

InfoSpec == InfoInit /\ [][InfoNext]_vars

----------------------------------------------------------------------------
(* The claims. *)

AfterStartErrors ==
    {"events", "properties", "connect", "discover_services", "read"}

\* C1: whenever get_devices exits with an error after start_scan succeeded
\* (a failure of events(), of reading properties, of connect, of service
\* discovery or of a read), stop_scan has been called and no discovery
\* session is left active.
C1_ErrorExitStopsScan ==
    (pc = "done" /\ result.kind = "err" /\ result.what \in AfterStartErrors)
        => (stopCalls >= 1 /\ ~scanning)

\* C2: when max_devices is Some(cap), cap >= 1, and the number of devices
\* reaches cap, stop_scan is called before the devices are returned: the cap
\* exit never returns with the discovery session active.
C2_CapExitStopsScan ==
    (pc = "done" /\ exitPath = "cap") => (stopCalls >= 1 /\ ~scanning)

\* C3: with max_devices = Some(0) start_scan is never invoked, no discovery
\* session is left active and the scan returns an empty list, for every
\* timeout.
C3_ZeroCapNeverStarts ==
    (max_devices = Some(0))
        => /\ startCalls = 0
           /\ ~scanning
           /\ exitPath = "early_cap" => result = OkResult(<<>>)

\* C4: with max_devices = Some(cap), cap >= 1, the result list never holds
\* more than cap devices, and once the cap-th device is assembled the scan
\* has returned exactly those cap devices, having consumed no event after
\* the one that produced the cap-th device.
C4_CapIsExact ==
    (max_devices.some /\ max_devices.v >= 1)
        => /\ Len(devices) <= max_devices.v
           /\ Len(devices) = max_devices.v
                => /\ pc = "done"
                   /\ exitPath = "cap"
                   /\ result = OkResult(devices)
                   /\ Len(result.devices) = max_devices.v
                   /\ consumed = pushedAt[max_devices.v]

\* C4's case: two matching devices assembled before the deadline under a
\* cap of two, with a third event that did not yield a device
C4_Witness ==
    /\ max_devices = Some(2)
    /\ exitPath = "cap"
    /\ Len(result.devices) = 2
    /\ consumed = 3
    /\ now < timeout_instant

NonSensorAddresses ==
    { p.address : p \in { q \in Peripherals : ARANET4_SERVICE \notin q.services } }

\* C5: a discovered device whose advertised services do not contain the
\* sensor service never appears in the result list, and once its services
\* are read the scan is back waiting for the next event, with no result and
\* no error.
C5_NonSensorSkipped ==
    /\ \A i \in 1..Len(devices) : devices[i].address \notin NonSensorAddresses
    /\ \A i \in 1..Len(result.devices) :
           result.devices[i].address \notin NonSensorAddresses
    /\ (ret = "props_some" /\ ARANET4_SERVICE \notin cur.services)
           => (pc = "wait_event" /\ result = NoResult /\ exitPath = "none")

\* C5's case: the services of a device without the sensor service were read
C5_Witness ==
    /\ ret = "props_some"
    /\ cur.id = Foreign.id
    /\ pc = "wait_event"
    /\ Len(devices) = 1

\* C6 as stated: when the deadline passes while the scan waits for the next
\* event, the scan stops discovery and returns success with the devices
\* accumulated so far.
C6_TimeoutReturnsSuccess ==
    (pc = "done" /\ loopExit = "timeout")
        => (result = OkResult(devices) /\ ~scanning)

\* C6 as amended: when the deadline passes while the scan waits for the
\* next event, the scan calls stop_scan; if stop_scan succeeds it returns
\* success with exactly the devices accumulated so far, and if stop_scan
\* fails it returns that failure.  The expiry itself is never the error.
C6_TimeoutStopsThenReturns ==
    (loopExit = "timeout")
        => /\ pc \in {"stop_scan", "done"}
           /\ result.what # "Elapsed"
           /\ pc = "stop_scan" => (result = NoResult /\ stopCalls = 0)
           /\ pc = "done"
                => /\ stopCalls = 1
                   /\ Len(devices) = Len(pushedAt)
                   /\ \/ ret = "ok" /\ result = OkResult(devices) /\ ~scanning
                      \/ ret = "err" /\ result = ErrResult("stop_scan")

\* C6's case: the deadline passed with one device accumulated, and the scan
\* returned it
C6_Witness ==
    /\ pc = "done"
    /\ loopExit = "timeout"
    /\ result.kind = "ok"
    /\ Len(result.devices) = 1
    /\ now >= timeout_instant

\* C7: every suspension point is bounded by the deadline: if the deadline
\* has passed while the scan waits for a device operation that does not
\* complete, the scan abandons the wait and reaches Done.  Nothing but the
\* scan's own steps moves it on, so in every such state the scan must have
\* a step to take.
C7_DeadlineBoundsDeviceOps ==
    (pc \in DeviceOps /\ hung /\ now >= timeout_instant) => ENABLED ScanStep

\* C8: when the data characteristic read returns fewer than 13 bytes, the
\* scan returns a TruncatedPayload error (no panic, no partial Data).
C8_ShortReadIsError ==
    (ret = "data_bytes" /\ Len(res) < DATA_LEN)
        => (pc = "done" /\ result = ErrResult("TruncatedPayload"))

\* C9: when byte 8 of a 13-byte payload is outside {1,2,3}, the scan
\* returns an InvalidStatus error (no panic, no Data, no substituted status).
C9_BadStatusIsError ==
    (ret = "data_bytes" /\ Len(res) = DATA_LEN /\ res[9] \notin {1, 2, 3})
        => (pc = "done" /\ result = ErrResult("InvalidStatus"))

\* f is the f32 nearest to n / d: normalized, and within half a unit in the
\* last place of the exact quotient
IsNearestF32(f, n, d) ==
    IF n = 0 THEN f.m = 0
    ELSE /\ f.m >= 2 ^ 23
         /\ f.m < 2 ^ 24
         /\ 2 * (d * f.m - n * (2 ^ f.e)) <= d
         /\ 2 * (n * (2 ^ f.e) - d * f.m) <= d

\* C10: for every 13-byte payload b with status byte in {1,2,3} the decoding
\* succeeds and co2 = b[0] + 256*b[1], temperature = (b[2] + 256*b[3]) / 20
\* and pressure = (b[4] + 256*b[5]) / 10 as f32 quotients, humidity = b[6],
\* battery = b[7], interval = b[9] + 256*b[10] s, ago = b[11] + 256*b[12] s.
C10_ByteLayout ==
    (pc # "get_data" /\ Len(res) = DATA_LEN /\ res[9] \in {1, 2, 3})
        => /\ pc = "decoded"
           /\ data.co2 = res[1] + 256 * res[2]
           /\ IsNearestF32(data.temperature, res[3] + 256 * res[4], 20)
           /\ IsNearestF32(data.pressure, res[5] + 256 * res[6], 10)
           /\ data.humidity = res[7]
           /\ data.battery = res[8]
           /\ data.status = <<"GREEN", "AMBER", "RED">>[res[9]]
           /\ data.interval = res[10] + 256 * res[11]
           /\ data.ago = res[12] + 256 * res[13]

\* C10's case: the documented example decoded: 722 ppm, 30.0 C
\* (15728640 / 2^19), 84.8 hPa (11114906 / 2^17, the f32 nearest to 84.8),
\* 40 %, battery 100, GREEN, 60 s, 5 s
C10_Witness ==
    /\ pc = "decoded"
    /\ res = SamplePayload
    /\ data.co2 = 722
    /\ data.temperature = [m |-> 15728640, e |-> 19]
    /\ data.pressure = [m |-> 11114906, e |-> 17]
    /\ data.humidity = 40
    /\ data.battery = 100
    /\ data.status = "GREEN"
    /\ data.interval = 60
    /\ data.ago = 5

\* the Info field the match of lines 173-199 gives to an identifier
FieldOf(inf, uuid) ==
    CASE uuid = BLUETOOTH_MODEL_NUMBER_CHARACTERISTIC -> inf.model_number
      [] uuid = BLUETOOTH_SERIAL_NUMBER_CHARACTERISTIC -> inf.serial_number
      [] uuid = BLUETOOTH_FIRMWARE_REVISION_CHARACTERISTIC -> inf.firmware_revision
      [] uuid = BLUETOOTH_HARDWARE_REVISION_CHARACTERISTIC -> inf.hardware_revision
      [] uuid = BLUETOOTH_SOFTWARE_REVISION_CHARACTERISTIC -> inf.software_revision
      [] uuid = BLUETOOTH_MANUFACTURER_NAME_CHARACTERISTIC -> inf.manufacturer_name

\* the Device built from cur has been pushed
JustPushed == Len(pushedAt) > 0 /\ pushedAt[Len(pushedAt)] = consumed

\* C11: for every set of characteristics a device exposes, when every read
\* succeeds get_info returns an Info in which each of the six fields is
\* populated if and only if its identifier is exposed (with the text read
\* from that characteristic); other identifiers are never read and change
\* no field; an absent identifier leaves its field None, without an error.
C11_InfoFieldsMatchExposed ==
    /\ infoReads \subseteq (InfoCharacteristics \cap cur.chars)
    /\ \A u \in InfoCharacteristics :
           FieldOf(info, u).some => (u \in cur.chars /\ u \in infoReads)
    /\ JustPushed
         => LET inf == devices[Len(devices)].info
            IN  /\ result.kind # "err"
                /\ infoReads = InfoCharacteristics \cap cur.chars
                /\ \A u \in InfoCharacteristics :
                     /\ FieldOf(inf, u).some <=> u \in cur.chars
                     /\ u \in cur.chars
                          => FieldOf(inf, u).v = FromUtf8Lossy(InfoBytes(cur, u))
                     /\ u \notin cur.chars => FieldOf(inf, u) = NoneStr

\* C11's case: a device exposing two of the six (and two other
\* characteristics) yields exactly those two fields
C11_Witness ==
    /\ JustPushed
    /\ cur.chars = { BLUETOOTH_SERIAL_NUMBER_CHARACTERISTIC,
                     BLUETOOTH_HARDWARE_REVISION_CHARACTERISTIC,
                     OTHER_CHARACTERISTIC, ARANET4_CHARACTERISTIC }
    /\ devices[1].info.serial_number = Some(<<50, 83, 65533, 233>>)
    /\ devices[1].info.hardware_revision = Some(<<52, 83, 65533, 233>>)
    /\ devices[1].info.model_number = NoneStr
    /\ devices[1].info.manufacturer_name = NoneStr

TransportFailures == {"start_scan", "connect", "read_data", "read_info"}

\* C12: a transport failure of start_scan, of connect, of the data read or
\* of an info read makes the scan return one terminal error: no device list
\* (not even the devices already assembled), no further event consumed, and
\* the failing device is not skipped.
C12_TransportErrorIsTerminal ==
    (ret = "err" /\ op \in TransportFailures)
        => /\ pc = "done"
           /\ exitPath = "error"
           /\ result.kind = "err"
           /\ result.devices = <<>>
           /\ result.what = (IF op \in {"read_data", "read_info"} THEN "read" ELSE op)
           /\ ~ENABLED ScanStep

\* C12's case: an info read fails after a device was assembled
C12_Witness ==
    /\ ret = "err"
    /\ op = "read_info"
    /\ Len(devices) = 1
    /\ pc = "done"

\* C13: when a device that advertises the sensor service exposes no data
\* characteristic, the scan returns an error: the device is not skipped, no
\* Device is appended, and the program does not panic.
C13_NoDataCharIsError ==
    (op = "get_name" /\ ret = "props_some" /\ cur.hasName
         /\ ARANET4_CHARACTERISTIC \notin cur.chars)
        => (pc = "done" /\ result.kind = "err" /\ ~JustPushed)

\* C14: when an expected property is absent (no properties for a discovered
\* device, or no local name for a device that passed the filter), the scan
\* returns a MissingProperty error: no panic, no Device with a substituted
\* name.
C14_MissingPropertyIsError ==
    (\/ ret = "props_none"
     \/ op = "get_name" /\ ret = "props_some" /\ ~cur.hasName)
        => (pc = "done" /\ result = ErrResult("MissingProperty"))

\* C15: when the adapter list is empty, the scan returns an
\* AdapterUnavailable error at once, without starting a scan and without a
\* panic.
C15_NoAdapterIsError ==
    (op = "adapters" /\ ret = "empty")
        => (pc = "done" /\ result = ErrResult("AdapterUnavailable")
              /\ startCalls = 0)

\* C16: the result list holds at most one Device per discovered identity: no
\* two entries have the same hardware address, and a repeated identity does
\* not count twice toward max_devices.
C16_NoDuplicateDevices ==
    \A i, j \in 1..Len(devices) :
        devices[i].address = devices[j].address => i = j

\* C17: the deadline is fixed once, before the first event is awaited, and no
\* event changes it; for every event stream, also one that keeps delivering
\* dropped events as long as the deadline has not passed, the scan leaves the
\* event wait and terminates (each device operation it awaits completing).
C17_DeadlineFixedScanEnds ==
    /\ [][pc # "events" => timeout_instant' = timeout_instant]_vars
    /\ <>(pc = "done" \/ hung)

\* C17's case: the stream went on past MaxEvents with dropped events, the
\* deadline passed and the scan ended by the timeout
C17_Witness ==
    /\ pc = "done"
    /\ loopExit = "timeout"
    /\ consumed = MaxEvents
    /\ op = "stop_scan"
    /\ cur.id = Silent.id
    /\ services.read
    /\ timeout = 1
    /\ timeout_instant >= 1
    /\ now >= timeout_instant

\* the run of the loop body for the last event taken is over
IterationOver ==
    \/ op = "events"
    \/ op = "wait_event"
    \/ op = "get_services" /\ ret = "props_some"
         /\ ARANET4_SERVICE \notin cur.services
    \/ op \in {"read_data", "read_info"} /\ JustPushed

\* C18: events are processed one at a time: the next event is taken only
\* while the scan waits at the head of the loop, after every operation for
\* the current event has completed (the event was no discovery, the device
\* was dropped by the filter, or its Device was pushed and the cap checked).
C18_OneEventAtATime ==
    [][consumed' # consumed
         => (pc = "wait_event" /\ IterationOver /\ result = NoResult
               /\ pc' \in {"wait_event", "peripheral"})]_vars

\* C18's case: the second event's device is being connected, the first one's
\* Device complete
C18_Witness ==
    /\ consumed = 2
    /\ pc = "connect"
    /\ cur.id = Sensor2.id
    /\ Len(devices) = 1
    /\ devices[1].address = Sensor1.address

\* C19: Status::try_from over all 256 byte values: 1 is GREEN, 2 is AMBER,
\* 3 is RED, every other value fails; no value gets a default variant.
C19_StatusExact ==
    (pc = "converted")
        => /\ res[1] = 1 => ret = "GREEN"
           /\ res[1] = 2 => ret = "AMBER"
           /\ res[1] = 3 => ret = "RED"
           /\ res[1] \notin {1, 2, 3} => ret = "Err"
           /\ ret \in {"GREEN", "AMBER", "RED", "Err"}

\* C19's case: byte 4 fails
C19_Witness == pc = "converted" /\ res = <<4>> /\ ret = "Err"

\* the operations of get_device, lines 123-130
ConnectedOps ==
    {"connect", "discover_services", "get_name", "read_data", "read_info"}

\* C20: connect, discovery and reads are issued only to a device whose
\* advertised services were read for the current event and contain the
\* sensor service; a device that fails the filter is never connected to or
\* read from.
C20_FilterPrecedesConnect ==
    (pc \in ConnectedOps \/ op \in ConnectedOps)
        => /\ services.read
           /\ services.set = cur.services
           /\ ARANET4_SERVICE \in services.set

\* C20's case: an info characteristic of a device that passed the filter is
\* being read
C20_Witness ==
    /\ pc = "read_info"
    /\ cur.id = Sensor2.id
    /\ services = [read |-> TRUE, set |-> {OTHER_SERVICE, ARANET4_SERVICE}]
    /\ consumed = 2

====
